---------------------------- MODULE Spec2Model ----------------------------
(***************************************************************************)
(* Vocabulary learner: the SM-2 spaced-repetition core                     *)
(* (vocabulary/spaced_repetition.py) as a state machine over a pool of     *)
(* word_data dictionaries, and the coordinator that drives it              *)
(* (coordinator.py, word_manager.py, storage.py) as a state machine over   *)
(* the WordManager, the storage data and the current word, with the        *)
(* notification loop the coordinator starts.                               *)
(*                                                                         *)
(* Numbers.  Easiness is a Python float that only ever changes by          *)
(* multiples of 0.01, so it is held in hundredths (2.5 is 250).  Priority  *)
(* scores are held in hundredths too (1000.0 is 100000).  The one place    *)
(* where binary floating point shows through is int(interval *             *)
(* new_easiness): when the decimal product is a whole number the float     *)
(* product may sit just under it (12 * 1.9999999999999998 gives 23), so    *)
(* the truncation may yield the whole number or one less.  IntTimes        *)
(* returns both outcomes.                                                  *)
(*                                                                         *)
(* Time.  datetime values are counted in ticks, TicksPerDay ticks a day.   *)
(* A timestamp is a tagged value: None, a datetime, or a str (the ISO      *)
(* text of a datetime, or text that does not parse).                       *)
(***************************************************************************)
EXTENDS Integers, Sequences, FiniteSets, TLC

VARIABLES
    now,    \* the wall clock, datetime.now(), in ticks
    pool,   \* all_words: sequence of word_data dictionaries [word, progress]
    last,   \* the last call made: its arguments, the argument's prior value, its return
    word_manager,   \* WordManager: _vocabulary and _progress (word -> WordProgress)
    storage,        \* VocabularyLearnerStorage.data: vocabulary, progress, statistics
    current_word,   \* coordinator.current_word: the word presented, 0 for None
    notifier        \* the notification loop: entry.data and the call_later pending

\* the coordinator's side of the state
hostVars == <<word_manager, storage, current_word, notifier>>

vars == <<now, pool, last, word_manager, storage, current_word, notifier>>

-----------------------------------------------------------------------------
(* Bounds of the model *)

\* ticks in a day
TicksPerDay == 2

\* a word is reviewed while its review_count is below this
MaxReviews == 6

\* the clock stops at this many ticks in Spec
MaxNow == 2

\* largest max_words passed to get_words_for_review
MaxWords == 2

\* words in the pool of PoolSpec
PoolSize == 2

\* reviews made in a run of PoolSpec, over all words
PoolReviews == 2

\* days of the long wait in PoolSpec
LongWait == 95

-----------------------------------------------------------------------------
(* Program constants *)

\* hundredths: the unit of easiness and of priority scores
Scale == 100

INITIAL_EASINESS == 250

MIN_EASINESS == 130

MIN_INTERVAL == 1

MAX_INTERVAL == 365

\* quality of recall (0-5)
Qualities == 0..5

Max(a, b) == IF a >= b THEN a ELSE b

Min(a, b) == IF a <= b THEN a ELSE b

-----------------------------------------------------------------------------
(* Timestamps *)

None == [kind |-> "none", v |-> 0]

Datetime(t) == [kind |-> "datetime", v |-> t]

\* text that datetime.fromisoformat rejects
Malformed == [kind |-> "str", v |-> -1]

\* datetime.isoformat(): the ISO text of a datetime
isoformat(d) == [kind |-> "str", v |-> d.v]

\* datetime.fromisoformat() inside try/except (ValueError, TypeError): pass,
\* after "if next_review_str": a datetime, or None when absent or unparsable
parse_timestamp(s) ==
    IF s.kind = "str" /\ s.v >= 0 THEN Datetime(s.v) ELSE None

\* timedelta(days=n)
timedelta_days(n) == n * TicksPerDay

\* a started day counted as a whole one
days_of_rounded_up(ticks) == (ticks + TicksPerDay - 1) \div TicksPerDay

\* timedelta.days of a non-negative difference: whole days, rounded down
days_of(ticks) == ticks \div TicksPerDay

-----------------------------------------------------------------------------
(* calculate_next_review *)

\* 0.1 - (5 - quality) * (0.08 + (5 - quality) * 0.02), in hundredths
EasinessDelta(quality) == 10 - (5 - quality) * (8 + (5 - quality) * 2)

\* the floor of line 47 left out
NewEasinessNoFloor(quality, easiness) == easiness + EasinessDelta(quality)

\* the factor left alone by a failed review
NewEasinessOnSuccess(quality, easiness) ==
    IF quality < 3 THEN easiness
    ELSE Max(MIN_EASINESS, easiness + EasinessDelta(quality))

NewEasiness(quality, easiness) ==
    Max(MIN_EASINESS, easiness + EasinessDelta(quality))

\* int(interval * new_easiness): the outcomes of truncating the float product
IntTimes(interval, new_easiness) ==
    LET p == (interval * new_easiness) \div Scale
    IN  IF (interval * new_easiness) % Scale = 0 /\ p >= 1
        THEN {p, p - 1}
        ELSE {p}

\* the interval before clamping
RawIntervals(quality, new_easiness, interval, review_count) ==
    IF quality < 3 THEN {MIN_INTERVAL}
    ELSE IF review_count = 0 THEN {1}
    ELSE IF review_count = 1 THEN {6}
    ELSE IntTimes(interval, new_easiness)

\* the upper clamp left out
ClampIntervalBelowOnly(new_interval) == Max(MIN_INTERVAL, new_interval)

ClampInterval(new_interval) ==
    Max(MIN_INTERVAL, Min(MAX_INTERVAL, new_interval))

\* the interval grown by the easiness the call was given, not the updated one
calculate_next_review_old_easiness(quality, easiness, interval, review_count, t) ==
    LET new_easiness == NewEasiness(quality, easiness)
    IN  { <<new_easiness, ClampInterval(r),
            Datetime(t + timedelta_days(ClampInterval(r)))>> :
            r \in RawIntervals(quality, easiness, interval, review_count) }

\* the tuples (new_easiness, new_interval, next_review) the call may return at time t
calculate_next_review(quality, easiness, interval, review_count, t) ==
    LET new_easiness == NewEasiness(quality, easiness)
    IN  { <<new_easiness, ClampInterval(r),
            Datetime(t + timedelta_days(ClampInterval(r)))>> :
            r \in RawIntervals(quality, new_easiness, interval, review_count) }

-----------------------------------------------------------------------------
(* update_word_progress *)

\* the threshold tested on the incremented count
NewStatusAfterIncrement(quality, review_count, status) ==
    IF quality >= 4 /\ review_count + 1 >= 3 THEN "known"
    ELSE IF quality >= 3 THEN "learning"
    ELSE IF quality < 3 THEN "unknown"
    ELSE status

NewStatus(quality, review_count, status) ==
    IF quality >= 4 /\ review_count >= 3 THEN "known"
    ELSE IF quality >= 3 THEN "learning"
    ELSE IF quality < 3 THEN "unknown"
    ELSE status

\* a failed review starting the count over
NewReviewCountReset(quality, review_count) ==
    IF quality < 3 THEN 1 ELSE review_count + 1

NewReviewCount(quality, review_count) == review_count + 1

\* the other counter not reset
NewConsecutiveIncorrectKept(quality, consecutive_incorrect) ==
    IF quality >= 3 THEN consecutive_incorrect ELSE consecutive_incorrect + 1

NewConsecutiveCorrect(quality, consecutive_correct) ==
    IF quality >= 3 THEN consecutive_correct + 1 ELSE 0

NewConsecutiveIncorrect(quality, consecutive_incorrect) ==
    IF quality >= 3 THEN 0 ELSE consecutive_incorrect + 1

\* the dictionary after the call, given calculate_next_review's return r
UpdatedProgress(word_progress, quality, r, t) ==
    [ status                |-> NewStatus(quality, word_progress.review_count,
                                          word_progress.status),
      review_count          |-> NewReviewCount(quality, word_progress.review_count),
      last_review           |-> isoformat(Datetime(t)),
      next_review           |-> isoformat(r[3]),
      easiness              |-> r[1],
      interval              |-> r[2],
      consecutive_correct   |-> NewConsecutiveCorrect(quality,
                                    word_progress.consecutive_correct),
      consecutive_incorrect |-> NewConsecutiveIncorrect(quality,
                                    word_progress.consecutive_incorrect) ]

\* the dictionaries update_word_progress may leave (and return) at time t
update_word_progress(word_progress, quality, t) ==
    { UpdatedProgress(word_progress, quality, r, t) :
        r \in calculate_next_review(quality, word_progress.easiness,
                                    word_progress.interval,
                                    word_progress.review_count, t) }

-----------------------------------------------------------------------------
(* is_due_for_review, get_priority_score *)

\* due only after next_review, not at it
is_due_for_review_strict(next_review, t) ==
    IF next_review.kind = "none" THEN TRUE ELSE t > next_review.v

\* next_review is None, a datetime or (never from get_words_for_review) a str
is_due_for_review(next_review, t) ==
    IF next_review.kind = "none" THEN TRUE ELSE t >= next_review.v

\* the bonus of a due word without the 10 points per day overdue
DueBonusFlat(next_review, t) ==
    IF next_review.kind # "none" /\ is_due_for_review(next_review, t)
    THEN 100 * Scale
    ELSE 0

\* "if next_review and is_due_for_review(next_review)": None is falsy
DueBonus(next_review, t) ==
    IF next_review.kind # "none" /\ is_due_for_review(next_review, t)
    THEN 100 * Scale + days_of(t - next_review.v) * 10 * Scale
    ELSE 0

StatusBonus(status) ==
    IF status = "unknown" THEN 50 * Scale
    ELSE IF status = "learning" THEN 25 * Scale
    ELSE 0

\* the score in hundredths, at time t
get_priority_score(next_review, review_count, easiness, status, t) ==
    IF review_count = 0 THEN 1000 * Scale
    ELSE DueBonus(next_review, t)
         + (3 * Scale - easiness) * 5
         + StatusBonus(status)
         - review_count * 10

-----------------------------------------------------------------------------
(* get_words_for_review *)

\* the (priority, word_data) tuple appended for one word
WithPriority(word_data, t) ==
    LET progress == word_data.progress
    IN  << get_priority_score(parse_timestamp(progress.next_review),
                              progress.review_count, progress.easiness,
                              progress.status, t),
           word_data >>

words_with_priority(all_words, t) ==
    [k \in 1..Len(all_words) |-> WithPriority(all_words[k], t)]

\* x placed in front of the entries with its own key: an ascending sort, reversed
InsertDescBeforeEqual(s, x) ==
    LET n == Cardinality({k \in 1..Len(s) : s[k][1] > x[1]})
    IN  SubSeq(s, 1, n) \o <<x>> \o SubSeq(s, n + 1, Len(s))

\* x placed behind every entry of the descending list s whose key is >= its own
InsertDesc(s, x) ==
    LET n == Cardinality({k \in 1..Len(s) : s[k][1] >= x[1]})
    IN  SubSeq(s, 1, n) \o <<x>> \o SubSeq(s, n + 1, Len(s))

RECURSIVE SortDesc(_)
\* list.sort(key=lambda x: x[0], reverse=True): descending, equal keys keep their order
SortDesc(s) ==
    IF s = <<>> THEN <<>>
    ELSE InsertDesc(SortDesc(SubSeq(s, 1, Len(s) - 1)), s[Len(s)])

\* the slice taken one entry too long
TakeOneMore(s, n) == SubSeq(s, 1, Min(n + 1, Len(s)))

\* s[:n] for n >= 0
Take(s, n) == SubSeq(s, 1, Min(n, Len(s)))

get_words_for_review(all_words, max_words, t) ==
    LET sorted == Take(SortDesc(words_with_priority(all_words, t)), max_words)
    IN  [k \in 1..Len(sorted) |-> sorted[k][2]]

-----------------------------------------------------------------------------
(* State *)

\* WordProgress defaults; the .get() defaults of update_word_progress
DefaultProgress ==
    [ status                |-> "unknown",
      review_count          |-> 0,
      last_review           |-> None,
      next_review           |-> None,
      easiness              |-> INITIAL_EASINESS,
      interval              |-> MIN_INTERVAL,
      consecutive_correct   |-> 0,
      consecutive_incorrect |-> 0 ]

\* progress records as storage may hand them over (async_import takes any backup):
\* the default record with other easiness, interval and review_count, and with
\* a next_review that is missing or is not a timestamp
StartStates ==
    { [DefaultProgress EXCEPT !.easiness = e, !.interval = iv, !.review_count = rc,
                              !.next_review = nr] :
        e \in {MIN_EASINESS, INITIAL_EASINESS},
        iv \in {0, MIN_INTERVAL, MAX_INTERVAL + 35},
        rc \in {0, 2, 4},
        nr \in {None, Malformed} }

\* no call yet; at is the time of the call, raised the exception it ended with,
\* all_words the list handed to get_words_for_review; of a coordinator call,
\* i is the word, before its WordProgress at the call and marked its WordProgress
\* after the WordManager's mark_known or mark_unknown; of a reset, held is the
\* progress the manager held at the call; of a notification tick, calls is the
\* number of notify service calls it issued
NoCall ==
    [ op |-> "none", at |-> 0, i |-> 0, quality |-> 0, max_words |-> 0,
      before |-> DefaultProgress, marked |-> DefaultProgress, raised |-> "none",
      held |-> <<>>, all_words |-> <<>>, ret |-> <<>>, scored |-> <<>>,
      calls |-> 0 ]

\* WordManager(storage) as constructed: no vocabulary, no progress
NewWordManager == [ _vocabulary |-> <<>>, _progress |-> <<>> ]

\* storage.data when nothing was stored: the .get() defaults
EmptyData ==
    [ vocabulary |-> <<>>, progress |-> <<>>,
      statistics |-> [total_words |-> 0, known_words |-> 0,
                      learning_words |-> 0, unknown_words |-> 0] ]

\* a time of day as entry.data holds it: text in a format, naming a minute
TimeText(format, minute) == [format |-> format, minute |-> minute]

DEFAULT_NOTIFICATION_FREQUENCY == 60

\* no call_later is pending
NoTimer == -1

\* entry.data without a notification entity: the defaults of config.get, and
\* _setup_notifications returns before it schedules anything
NoNotifier ==
    [ quiet_hours_start      |-> TimeText("%H:%M", 22 * 60),
      quiet_hours_end        |-> TimeText("%H:%M", 8 * 60),
      notification_frequency |-> DEFAULT_NOTIFICATION_FREQUENCY,
      notification_entity    |-> FALSE,
      due                    |-> NoTimer ]

\* no coordinator is set up: the core is called on its own
NoHost ==
    /\ word_manager = NewWordManager
    /\ storage = EmptyData
    /\ current_word = 0
    /\ notifier = NoNotifier

Init ==
    /\ now = 0
    /\ \E p \in StartStates : pool = << [word |-> 1, progress |-> p] >>
    /\ last = NoCall
    /\ NoHost

\* update_word_progress(all_words[i]["progress"], quality): the dictionary is
\* updated in place and returned
UpdateWordProgress(i, quality) ==
    /\ \E p \in update_word_progress(pool[i].progress, quality, now) :
          pool' = [pool EXCEPT ![i].progress = p]
    /\ last' = [NoCall EXCEPT !.op = "update", !.at = now, !.i = i,
                              !.quality = quality, !.before = pool[i].progress]
    /\ UNCHANGED <<now, hostVars>>

\* get_words_for_review(all_words, max_words) for a list of the pool's entries
GetWordsForReviewOf(all_words, max_words) ==
    /\ last' = [NoCall EXCEPT !.op = "select", !.at = now, !.max_words = max_words,
                   !.all_words = all_words,
                   !.ret = get_words_for_review(all_words, max_words, now),
                   !.scored = SortDesc(words_with_priority(all_words, now))]
    /\ UNCHANGED <<now, pool, hostVars>>

\* get_words_for_review(all_words, max_words) for the pool in its own order
GetWordsForReview(max_words) == GetWordsForReviewOf(pool, max_words)

\* time passes
AdvanceClock(d) ==
    /\ now' = now + d
    /\ UNCHANGED <<pool, last, hostVars>>

Review ==
    \E i \in 1..Len(pool), quality \in Qualities :
        /\ pool[i].progress.review_count < MaxReviews
        /\ UpdateWordProgress(i, quality)

Select == \E max_words \in 0..MaxWords : GetWordsForReview(max_words)

Tick == now < MaxNow /\ AdvanceClock(1)

Next == Review \/ Select \/ Tick

Spec == Init /\ [][Next]_vars

-----------------------------------------------------------------------------
(* Callers that do not keep to quality 0..5 *)

InvalidQualities == {-1, 6}

ReviewAnyQuality ==
    \E i \in 1..Len(pool), quality \in Qualities \cup InvalidQualities :
        /\ pool[i].progress.review_count < MaxReviews
        /\ UpdateWordProgress(i, quality)

AnyQualityInit ==
    /\ now = 0
    /\ pool = << [word |-> 1, progress |-> DefaultProgress] >>
    /\ last = NoCall
    /\ NoHost

AnyQualityNext == ReviewAnyQuality \/ Select \/ Tick

AnyQualitySpec == AnyQualityInit /\ [][AnyQualityNext]_vars

\* the core on a word that starts with the defaults, called with 0..5 only
DefaultNext == Review \/ Tick

DefaultSpec == AnyQualityInit /\ [][DefaultNext]_vars

-----------------------------------------------------------------------------
(* A learner who, after the first reviews, answers every review well *)

\* the first reviews, of any quality 0..5, end at this review_count
FirstReviews == 2

\* the run of good answers ends at this review_count
StreakReviews == 20

FirstReview ==
    \E quality \in Qualities :
        /\ pool[1].progress.review_count < FirstReviews
        /\ UpdateWordProgress(1, quality)

\* a successful review, as long as the interval is below the cap
SuccessfulReview ==
    \E quality \in 3..5 :
        /\ pool[1].progress.interval < MAX_INTERVAL
        /\ pool[1].progress.review_count < StreakReviews
        /\ UpdateWordProgress(1, quality)

StreakNext == FirstReview \/ SuccessfulReview

\* the learner goes on reviewing: a successful review that can be made is made
StreakSpec == AnyQualityInit /\ [][StreakNext]_vars /\ WF_vars(SuccessfulReview)

-----------------------------------------------------------------------------
(* A pool of several words, reviewed and ranked over months *)

\* the instants at which calls are made
PoolInstants == {0, 1, TicksPerDay, timedelta_days(LongWait) + 1}

\* a pool of 0..PoolSize words, none reviewed yet
PoolInit ==
    /\ now = 0
    /\ \E n \in 0..PoolSize :
          pool = [k \in 1..n |-> [word |-> k, progress |-> DefaultProgress]]
    /\ last = NoCall
    /\ NoHost

RECURSIVE TotalReviews(_)
TotalReviews(all_words) ==
    IF all_words = <<>> THEN 0
    ELSE all_words[1].progress.review_count + TotalReviews(Tail(all_words))

PoolReview ==
    \E i \in 1..Len(pool), quality \in Qualities :
        /\ TotalReviews(pool) < PoolReviews
        /\ UpdateWordProgress(i, quality)

Wait == \E t \in PoolInstants : t > now /\ AdvanceClock(t - now)

PoolNext == PoolReview \/ Select \/ Wait

PoolSpec == PoolInit /\ [][PoolNext]_vars

-----------------------------------------------------------------------------
(* Three words, one of them reviewed for years *)

\* reviews the recently learned word gets
ShortReviews == 2

\* reviews the long-studied word gets
DrillReviews == 160

\* the answers given for the recently learned word: a failure, a pass, a perfect one
ScenarioQualities == {0, 3, 5}

\* the instants at which calls are made: the first day, and 5 and 5.5 days after
\* a review with an interval of 365 days was due
ScenarioInstants == {0, timedelta_days(370), timedelta_days(370) + 1}

\* word 1 is never reviewed, word 2 is studied for long, word 3 learned lately
ScenarioInit ==
    /\ now = 0
    /\ pool = [k \in 1..3 |-> [word |-> k, progress |-> DefaultProgress]]
    /\ last = NoCall
    /\ NoHost

\* word 3 is reviewed, at any instant
ScenarioReview ==
    \E quality \in ScenarioQualities :
        /\ pool[3].progress.review_count < ShortReviews
        /\ UpdateWordProgress(3, quality)

\* word 2 is reviewed on the first day, again and again, with perfect answers
Drill ==
    /\ now = 0
    /\ pool[2].progress.review_count < DrillReviews
    /\ UpdateWordProgress(2, 5)

ScenarioWait == \E t \in ScenarioInstants : t > now /\ AdvanceClock(t - now)

\* the six orders in which a caller lists the pool, two words requested
ScenarioSelect ==
    \E a \in 1..3 : \E b \in (1..3) \ {a} : \E c \in (1..3) \ {a, b} :
        GetWordsForReviewOf(<<pool[a], pool[b], pool[c]>>, 2)

ScenarioNext == ScenarioReview \/ Drill \/ ScenarioWait \/ ScenarioSelect

ScenarioSpec == ScenarioInit /\ [][ScenarioNext]_vars

-----------------------------------------------------------------------------
(* WordProgress *)

\* to_dict() raises AttributeError: a str timestamp has no .isoformat()
to_dict_raises(progress) ==
    progress.last_review.kind = "str" \/ progress.next_review.kind = "str"

\* to_dict() of a WordProgress whose timestamps are None or datetime values
to_dict(progress) ==
    [progress EXCEPT
        !.last_review = IF @.kind = "none" THEN None ELSE isoformat(@),
        !.next_review = IF @.kind = "none" THEN None ELSE isoformat(@)]

\* from_dict(data): timestamps parsed, None when absent or unparsable
from_dict(data) ==
    [data EXCEPT !.last_review = parse_timestamp(@),
                 !.next_review = parse_timestamp(@)]

-----------------------------------------------------------------------------
(* WordManager and storage, as steps on the coordinator's state h:           *)
(* [word_manager, storage, current_word, raised]                             *)

\* the words a sequence of vocabulary entries holds
WordsOf(vocabulary) == {vocabulary[k] : k \in 1..Len(vocabulary)}

\* "if word not in self._progress: self._progress[word] = WordProgress(word=word)"
WithEntry(_progress, word) ==
    [w \in DOMAIN _progress \cup {word} |->
        IF w \in DOMAIN _progress THEN _progress[w] ELSE DefaultProgress]

\* WordManager.mark_known, on the word's WordProgress
mark_known(progress, t) ==
    [progress EXCEPT !.status = "known",
                     !.last_review = Datetime(t),
                     !.consecutive_correct = @ + 1,
                     !.consecutive_incorrect = 0]

\* WordManager.mark_unknown, on the word's WordProgress
mark_unknown(progress, t) ==
    [progress EXCEPT !.status = "unknown",
                     !.last_review = Datetime(t),
                     !.consecutive_incorrect = @ + 1,
                     !.consecutive_correct = 0]

\* WordManager.update_progress: setattr for every key that is an attribute
update_progress(progress, progress_data) ==
    [key \in DOMAIN progress |->
        IF key \in DOMAIN progress_data THEN progress_data[key] ELSE progress[key]]

\* storage.update_statistics: the stored vocabulary counted by stored status
update_statistics(data) ==
    LET status(k) ==
            IF data.vocabulary[k] \in DOMAIN data.progress
            THEN data.progress[data.vocabulary[k]].status ELSE "unknown"
        count(s) == Cardinality({k \in 1..Len(data.vocabulary) : status(k) = s})
    IN  [ total_words    |-> Len(data.vocabulary),
          known_words    |-> count("known"),
          learning_words |-> count("learning"),
          unknown_words  |-> Len(data.vocabulary) - count("known") - count("learning") ]

\* WordManager.get_statistics: the progress entries counted by status
get_statistics(manager) ==
    LET count(s) ==
            Cardinality({w \in DOMAIN manager._progress : manager._progress[w].status = s})
    IN  [ total_words    |-> Len(manager._vocabulary),
          known_words    |-> count("known"),
          learning_words |-> count("learning"),
          unknown_words  |-> count("unknown") ]

\* WordManager._save_progress: every WordProgress serialised, then stored
_save_progress(h) ==
    LET _progress == h.word_manager._progress
    IN  IF \E w \in DOMAIN _progress : to_dict_raises(_progress[w])
        THEN [h EXCEPT !.raised = "AttributeError"]
        ELSE LET data == [h.storage EXCEPT
                             !.progress = [w \in DOMAIN _progress |-> to_dict(_progress[w])]]
             IN  [h EXCEPT !.storage = [data EXCEPT !.statistics = update_statistics(data)]]

\* WordManager.load_vocabulary: vocabulary and progress read from storage
load_vocabulary(h) ==
    [h EXCEPT !.word_manager =
        [ _vocabulary |-> h.storage.vocabulary,
          _progress   |-> [w \in DOMAIN h.storage.progress |->
                              from_dict(h.storage.progress[w])] ]]

\* WordManager.save_vocabulary
save_vocabulary(h, vocabulary) ==
    LET _progress == h.word_manager._progress
    IN  _save_progress(
            [h EXCEPT !.word_manager =
                        [ _vocabulary |-> vocabulary,
                          _progress   |-> [w \in DOMAIN _progress \cup WordsOf(vocabulary) |->
                                              IF w \in DOMAIN _progress THEN _progress[w]
                                              ELSE DefaultProgress] ],
                      !.storage.vocabulary = vocabulary])

\* a reset of the vocabulary's words that keeps the entries of other words
reset_progress_of_vocabulary(h) ==
    _save_progress(
        [h EXCEPT !.word_manager._progress =
            [w \in DOMAIN @ \cup WordsOf(h.word_manager._vocabulary) |->
                IF w \in WordsOf(h.word_manager._vocabulary) THEN DefaultProgress
                ELSE @[w]]])

\* WordManager.reset_progress
reset_progress(h) ==
    _save_progress(
        [h EXCEPT !.word_manager._progress =
            [w \in WordsOf(h.word_manager._vocabulary) |-> DefaultProgress]])

-----------------------------------------------------------------------------
(* VocabularyLearnerCoordinator *)

\* the words the service calls name; word 3 is in no vocabulary
Words == 1..3

\* the entries parse_file reads from the vocabulary file
VocabFile == <<1, 2>>

DEFAULT_WORDS_PER_DAY == 10

\* coordinator._load_vocabulary: the file's entries, if any, are saved
_load_vocabulary(h) ==
    IF VocabFile # <<>> THEN save_vocabulary(h, VocabFile) ELSE h

\* coordinator._get_next_word: the step on h and the word returned (0 for None)
_get_next_word(h, max_words, t) ==
    LET h1 == IF h.word_manager._vocabulary = <<>> THEN _load_vocabulary(h) ELSE h
        vocabulary == h1.word_manager._vocabulary
        _progress == h1.word_manager._progress
        words_with_progress ==
            [k \in 1..Len(vocabulary) |->
                [ word     |-> vocabulary[k],
                  progress |-> IF vocabulary[k] \in DOMAIN _progress
                               THEN to_dict(_progress[vocabulary[k]])
                               ELSE DefaultProgress ]]
        review_words == get_words_for_review(words_with_progress, max_words, t)
    IN  IF h1.raised # "none" \/ vocabulary = <<>>
        THEN [host |-> h1, ret |-> 0]
        ELSE IF \E k \in 1..Len(vocabulary) :
                    /\ vocabulary[k] \in DOMAIN _progress
                    /\ to_dict_raises(_progress[vocabulary[k]])
        THEN [host |-> [h1 EXCEPT !.raised = "AttributeError"], ret |-> 0]
        ELSE [host |-> h1,
              ret  |-> IF review_words # <<>> THEN review_words[1].word ELSE 0]

\* coordinator._async_update_data; any exception leaves as UpdateFailed
_async_update_data(h, t) ==
    LET h1 == load_vocabulary(h)
        h2 == IF h1.word_manager._vocabulary # <<>> THEN h1
              ELSE LET loaded == _load_vocabulary(h1)
                   IN  IF loaded.raised # "none" THEN loaded ELSE load_vocabulary(loaded)
        next_word == _get_next_word(h2, DEFAULT_WORDS_PER_DAY, t)
        h3 == next_word.host
    IN  IF h2.raised # "none" THEN [h2 EXCEPT !.raised = "UpdateFailed"]
        ELSE IF h3.raised # "none" THEN [h3 EXCEPT !.raised = "UpdateFailed"]
        ELSE [h3 EXCEPT !.current_word = next_word.ret,
                        !.storage.statistics = get_statistics(h3.word_manager)]

\* DataUpdateCoordinator.async_request_refresh: the update runs, a failure is logged
async_request_refresh(h, t) ==
    [_async_update_data(h, t) EXCEPT !.raised = "none"]

\* the part mark_word_known and mark_word_unknown share: marked is the word's
\* WordProgress after the WordManager's own marking
record_review(h, word, marked, quality, t) ==
    LET h1 == [h EXCEPT !.word_manager._progress =
                            [WithEntry(@, word) EXCEPT ![word] = marked]]
    IN  IF to_dict_raises(marked) THEN { [h1 EXCEPT !.raised = "AttributeError"] }
        ELSE { LET h2 == [h1 EXCEPT !.word_manager._progress[word] =
                                        update_progress(marked, updated_progress)]
                   h3 == _save_progress(h2)
               IN  IF h3.raised # "none" THEN h3 ELSE async_request_refresh(h3, t)
               : updated_progress \in update_word_progress(to_dict(marked), quality, t) }

\* coordinator.mark_word_known: the states it may leave
mark_word_known(h, word, t) ==
    record_review(h, word,
                  mark_known(WithEntry(h.word_manager._progress, word)[word], t), 5, t)

\* coordinator.mark_word_unknown: the states it may leave
mark_word_unknown(h, word, t) ==
    record_review(h, word,
                  mark_unknown(WithEntry(h.word_manager._progress, word)[word], t), 0, t)

-----------------------------------------------------------------------------
(* The coordinator at work: service calls and the periodic refresh *)

\* a WordManager counter stops growing here
MaxStreak == 2

\* words that may hold progress the storage does not hold
MaxUnsaved == 1

\* the clock stops at this many ticks in HostSpec
MaxHostNow == 1

\* the coordinator's state as a record
Host ==
    [ word_manager |-> word_manager, storage |-> storage,
      current_word |-> current_word, raised |-> "none" ]

Becomes(h) ==
    /\ word_manager' = h.word_manager
    /\ storage' = h.storage
    /\ current_word' = h.current_word
    /\ UNCHANGED notifier

\* a backup with history: word 1 reviewed twice with a next_review that does not
\* parse, word 2 without an entry, and an entry for word 3 of no vocabulary
Backup ==
    LET data ==
          [ vocabulary |-> VocabFile,
            progress   |->
              [w \in {1, 3} |->
                 IF w = 1
                 THEN [DefaultProgress EXCEPT
                          !.status = "learning", !.review_count = 2, !.interval = 6,
                          !.easiness = 260, !.consecutive_correct = 2,
                          !.last_review = isoformat(Datetime(0)),
                          !.next_review = Malformed]
                 ELSE [DefaultProgress EXCEPT
                          !.review_count = 1, !.easiness = 170,
                          !.consecutive_incorrect = 1,
                          !.last_review = isoformat(Datetime(0)),
                          !.next_review = isoformat(Datetime(timedelta_days(1)))]],
            statistics |-> EmptyData.statistics ]
    IN  [data EXCEPT !.statistics = update_statistics(data)]

\* progress kept from an earlier installation, the vocabulary not stored: word 1
\* reviewed three times, word 3 of no vocabulary reviewed twice and failed last
Archive ==
    [ vocabulary |-> <<>>,
      progress   |->
        [w \in {1, 3} |->
           IF w = 1
           THEN [DefaultProgress EXCEPT
                    !.status = "learning", !.review_count = 3, !.interval = 6,
                    !.consecutive_correct = 1,
                    !.last_review = isoformat(Datetime(0)),
                    !.next_review = isoformat(Datetime(timedelta_days(6)))]
           ELSE [DefaultProgress EXCEPT
                    !.review_count = 2, !.easiness = 170,
                    !.consecutive_incorrect = 1,
                    !.last_review = isoformat(Datetime(0)),
                    !.next_review = isoformat(Datetime(timedelta_days(1)))]],
      statistics |-> EmptyData.statistics ]

\* what the store may hold when the entry is set up
StoredData == {EmptyData, Backup, Archive}

\* async_setup_entry: storage loaded, coordinator constructed, first refresh done
HostInit ==
    /\ now = 0
    /\ pool = <<>>
    /\ last = NoCall
    /\ \E data \in StoredData :
          LET h == _async_update_data(
                       [ word_manager |-> NewWordManager, storage |-> data,
                         current_word |-> 0, raised |-> "none" ], 0)
          IN  /\ word_manager = h.word_manager
              /\ storage = h.storage
              /\ current_word = h.current_word
    /\ notifier = NoNotifier

\* the WordProgress the manager holds for word, the defaults if it holds none
Held(word) == WithEntry(word_manager._progress, word)[word]

\* the words whose WordProgress is not the one storage holds
Unsaved ==
    {w \in DOMAIN word_manager._progress :
        \/ w \notin DOMAIN storage.progress
        \/ word_manager._progress[w] # from_dict(storage.progress[w])}

\* service mark_known
MarkWordKnown(word) ==
    /\ Held(word).consecutive_correct < MaxStreak
    /\ Cardinality(Unsaved \cup {word}) <= MaxUnsaved
    /\ \E h \in mark_word_known(Host, word, now) :
          /\ Becomes(h)
          /\ last' = [NoCall EXCEPT !.op = "mark_word_known", !.at = now, !.i = word,
                                    !.quality = 5, !.before = Held(word),
                                    !.marked = mark_known(Held(word), now),
                                    !.raised = h.raised]
    /\ UNCHANGED <<now, pool>>

\* service mark_unknown
MarkWordUnknown(word) ==
    /\ Held(word).consecutive_incorrect < MaxStreak
    /\ Cardinality(Unsaved \cup {word}) <= MaxUnsaved
    /\ \E h \in mark_word_unknown(Host, word, now) :
          /\ Becomes(h)
          /\ last' = [NoCall EXCEPT !.op = "mark_word_unknown", !.at = now, !.i = word,
                                    !.quality = 0, !.before = Held(word),
                                    !.marked = mark_unknown(Held(word), now),
                                    !.raised = h.raised]
    /\ UNCHANGED <<now, pool>>

\* service next_word: get_next_word, and if there is a word, it becomes the
\* current word and a refresh is requested
NextWord ==
    LET next_word == _get_next_word(Host, DEFAULT_WORDS_PER_DAY, now)
        h == next_word.host
    IN  /\ Becomes(IF h.raised # "none" \/ next_word.ret = 0 THEN h
                   ELSE async_request_refresh([h EXCEPT !.current_word = next_word.ret], now))
        /\ last' = [NoCall EXCEPT !.op = "next_word", !.at = now, !.i = next_word.ret,
                                  !.raised = h.raised]
        /\ UNCHANGED <<now, pool>>

\* service reset_progress: the manager's reset, then a refresh
ResetProgress ==
    LET h == reset_progress(Host)
    IN  /\ Becomes(IF h.raised # "none" THEN h ELSE async_request_refresh(h, now))
        /\ last' = [NoCall EXCEPT !.op = "reset_progress", !.at = now,
                                  !.held = word_manager._progress,
                                  !.raised = h.raised]
        /\ UNCHANGED <<now, pool>>

\* the refresh the coordinator runs every 5 minutes
Refresh ==
    LET h == _async_update_data(Host, now)
    IN  /\ Becomes(h)
        /\ last' = [NoCall EXCEPT !.op = "refresh", !.at = now, !.raised = h.raised]
        /\ UNCHANGED <<now, pool>>

MarkKnown == \E word \in Words : MarkWordKnown(word)

MarkUnknown == \E word \in Words : MarkWordUnknown(word)

HostTick == now < MaxHostNow /\ AdvanceClock(1)

HostNext == MarkKnown \/ MarkUnknown \/ NextWord \/ ResetProgress \/ Refresh \/ HostTick

HostSpec == HostInit /\ [][HostNext]_vars

-----------------------------------------------------------------------------
(* The notification loop.  In NotifySpec a tick of now is one minute.        *)

\* the clock stops at this many minutes in NotifySpec
MaxClock == 1500

MinutesPerDay == 24 * 60

\* "Wait 1 minute before first notification"
FirstDelay == 1

\* the texts the options flow may hand over (it takes any str): 08:00 and 22:00
\* as "HH:MM", and as "HH:MM:SS", which strptime(.., "%H:%M") does not take
QuietHours ==
    { TimeText(format, minute) : format \in {"%H:%M", "%H:%M:%S"},
                                 minute \in {8 * 60, 22 * 60} }

\* notification_frequency, in minutes
Frequencies == {1, DEFAULT_NOTIFICATION_FREQUENCY}

\* dt_util.now().time()
time(t) == t % MinutesPerDay

\* datetime.strptime(text, "%H:%M") raises ValueError
strptime_raises(text) == text.format # "%H:%M"

\* datetime.strptime(text, "%H:%M").time()
strptime(text) == text.minute

\* a check that takes a window with start > end for an empty one
_is_quiet_hours_same_day(config, t) ==
    IF strptime_raises(config.quiet_hours_start) \/ strptime_raises(config.quiet_hours_end)
    THEN FALSE
    ELSE /\ strptime(config.quiet_hours_start) <= time(t)
         /\ time(t) <= strptime(config.quiet_hours_end)

\* coordinator._is_quiet_hours at time t; an exception is logged and gives False
_is_quiet_hours(config, t) ==
    IF strptime_raises(config.quiet_hours_start) \/ strptime_raises(config.quiet_hours_end)
    THEN FALSE
    ELSE LET start_time == strptime(config.quiet_hours_start)
             end_time == strptime(config.quiet_hours_end)
         IN  IF start_time <= end_time
             THEN start_time <= time(t) /\ time(t) <= end_time
             ELSE time(t) >= start_time \/ time(t) <= end_time

\* send_notification: the number of notify service calls it issues; a call that
\* fails is logged, and _last_notification, which it sets, is read nowhere
send_notification(config, word, t) ==
    IF _is_quiet_hours(config, t) THEN 0
    ELSE IF word # 0 THEN 1
    ELSE 0

\* _setup_notifications, after the first refresh
NotifyInit ==
    /\ now = 0
    /\ pool = <<>>
    /\ last = NoCall
    /\ word_manager = NewWordManager
    /\ storage = EmptyData
    /\ current_word \in {0, 1}
    /\ \E start \in QuietHours, end \in QuietHours, frequency \in Frequencies,
          entity \in BOOLEAN :
          notifier = [ quiet_hours_start      |-> start,
                       quiet_hours_end        |-> end,
                       notification_frequency |-> frequency,
                       notification_entity    |-> entity,
                       due                    |-> IF entity THEN now + FirstDelay
                                                  ELSE NoTimer ]

\* the pending call_later fires: schedule_next sends and schedules the next one
ScheduleNext ==
    /\ notifier.due # NoTimer
    /\ notifier.due <= MaxClock
    /\ now' = notifier.due
    /\ last' = [NoCall EXCEPT !.op = "schedule_next", !.at = now',
                              !.calls = send_notification(notifier, current_word, now')]
    /\ notifier' = [notifier EXCEPT !.due = now' + notifier.notification_frequency]
    /\ UNCHANGED <<pool, word_manager, storage, current_word>>

NotifyNext == ScheduleNext

NotifySpec == NotifyInit /\ [][NotifyNext]_vars

-----------------------------------------------------------------------------
(* Properties of update_word_progress *)

\* the last call was update_word_progress with a quality of 0..5
Updated == last.op = "update" /\ last.quality \in Qualities

\* the dictionary that call left
After == pool[last.i].progress

\* C1: a word whose easiness starts at 1.3 or above keeps an easiness of 1.3 or
\* above through any sequence of reviews with quality 0..5.
C1_EasinessFloor ==
    \A i \in 1..Len(pool) : pool[i].progress.easiness >= 130

\* a quality-0 review of a word already at the floor left it at the floor
C1_Witness ==
    /\ Updated /\ last.quality = 0
    /\ last.before.easiness = 130
    /\ After.easiness = 130

\* C2: whatever the quality, prior easiness, prior interval (also one outside
\* 1..365) and prior review count, the interval a review stores is in 1..365.
C2_IntervalClamped ==
    last.op = "update" => After.interval \in 1..365

\* a successful review of a word whose stored interval was above 365 left 365
C2_Witness ==
    /\ Updated /\ last.quality >= 3
    /\ last.before.interval > 365 /\ last.before.review_count >= 2
    /\ After.interval = 365

\* the whole numbers int() may give for interval * easiness: the floor of the
\* product, and for a whole-number product also the number below it (the float
\* product of a drifted easiness)
FloorOfProduct(interval, easiness) ==
    { n \in 0..((interval * easiness) \div Scale) :
        \/ n * Scale <= interval * easiness /\ interval * easiness < (n + 1) * Scale
        \/ (n + 1) * Scale = interval * easiness }

\* C3: the stored interval is 1 after a failed review, 1 after a first successful
\* review, 6 after a second, and otherwise floor(prior interval x NEW easiness),
\* clamped to 1..365.
C3_IntervalRule ==
    Updated =>
        LET q == last.quality
            rc == last.before.review_count
        IN  \/ q < 3 /\ After.interval = 1
            \/ q >= 3 /\ rc = 0 /\ After.interval = 1
            \/ q >= 3 /\ rc = 1 /\ After.interval = 6
            \/ /\ q >= 3 /\ rc >= 2
               /\ \E n \in FloorOfProduct(last.before.interval, After.easiness) :
                     After.interval = IF n < 1 THEN 1 ELSE IF n > 365 THEN 365 ELSE n

\* a third or later successful review where the prior easiness would have given
\* another interval than the new one did
C3_Witness ==
    /\ Updated /\ last.quality = 5 /\ last.before.review_count >= 2
    /\ After.interval < 365
    /\ After.interval \notin FloorOfProduct(last.before.interval, last.before.easiness)

\* d(quality) in hundredths, for quality 0..5
EasinessStep == <<-80, -54, -32, -14, 0, 10>>

\* C4: every review sets the easiness to max(1.3, EF + d(quality)), failed
\* reviews included, with no upper cap.
C4_EasinessRule ==
    Updated =>
        After.easiness =
            LET e == last.before.easiness + EasinessStep[last.quality + 1]
            IN  IF e < 130 THEN 130 ELSE e

\* a quality-5 review raised the easiness by 0.1 to beyond 3.0
C4_Witness ==
    /\ Updated /\ last.quality = 5
    /\ After.easiness = last.before.easiness + 10
    /\ After.easiness > 300

\* C5: the status after a review is known iff quality >= 4 and the prior review
\* count is >= 3, learning iff quality >= 3 otherwise, unknown iff quality < 3.
C5_StatusRule ==
    Updated =>
        After.status =
            IF last.quality >= 4 /\ last.before.review_count >= 3 THEN "known"
            ELSE IF last.quality >= 3 THEN "learning"
            ELSE "unknown"

\* a quality >= 4 review at prior count 2 (count 3 afterwards) left learning
C5_Witness ==
    /\ Updated /\ last.quality >= 4
    /\ last.before.review_count = 2 /\ After.review_count = 3
    /\ After.status = "learning"

\* C7: a review with quality >= 3 adds one to consecutive_correct and zeroes
\* consecutive_incorrect, a review with quality < 3 the reverse; so once a word
\* has been reviewed exactly one of the two counters is nonzero.
C7_MomentumCounters ==
    /\ Updated =>
          IF last.quality >= 3
          THEN /\ After.consecutive_correct = last.before.consecutive_correct + 1
               /\ After.consecutive_incorrect = 0
          ELSE /\ After.consecutive_incorrect = last.before.consecutive_incorrect + 1
               /\ After.consecutive_correct = 0
    /\ \A i \in 1..Len(pool) :
          pool[i].progress.last_review # None =>
              (pool[i].progress.consecutive_correct = 0)
                  # (pool[i].progress.consecutive_incorrect = 0)

\* a successful review ended a run of two failed ones
C7_Witness ==
    /\ Updated /\ last.quality >= 3
    /\ last.before.consecutive_incorrect = 2
    /\ After.consecutive_incorrect = 0 /\ After.consecutive_correct = 1

\* C8: every review, failed or not, adds exactly one to review_count.
C8_ReviewCount ==
    Updated => After.review_count = last.before.review_count + 1

\* a failed review of a word with history reset the interval, not the count
C8_Witness ==
    /\ Updated /\ last.quality < 3
    /\ last.before.review_count >= 2 /\ last.before.interval > 1
    /\ After.interval = 1
    /\ After.review_count = last.before.review_count + 1

\* C6: update_word_progress with a quality outside 0..5 raises InvalidQuality
\* and leaves the word's memory-state as it was.
C6_InvalidQualityRejected ==
    (last.op = "update" /\ last.quality \notin 0..5) =>
        /\ last.raised = "InvalidQuality"
        /\ After = last.before

-----------------------------------------------------------------------------
(* Properties of get_priority_score and get_words_for_review *)

\* C9: in the list get_words_for_review returns, every never-reviewed word
\* precedes every word with history.
C9_NeverReviewedFirst ==
    last.op = "select" =>
        \A j, k \in 1..Len(last.ret) :
            (last.ret[j].progress.review_count >= 1
                /\ last.ret[k].progress.review_count = 0) => k < j

\* C10: a word with review_count >= 1 and no next_review is scored as due with 0
\* days overdue: 100 + (3.0 - easiness) x 5 + status bonus - 0.1 x review_count.
C10_NullNextReviewIsDue ==
    last.op = "select" =>
        \A k \in 1..Len(last.scored) :
            LET progress == last.scored[k][2].progress
            IN  (progress.review_count >= 1 /\ progress.next_review = None) =>
                    last.scored[k][1] =
                        10000 + (300 - progress.easiness) * 5
                              + (IF progress.status = "unknown" THEN 5000
                                 ELSE IF progress.status = "learning" THEN 2500
                                 ELSE 0)
                              - 10 * progress.review_count

\* the last call was get_words_for_review
Selected == last.op = "select"

\* C11: for a word with review_count >= 1 and a next_review, the score is
\* (100 + 10 x daysOverdue if now >= next_review, else 0) + (3.0 - easiness) x 5
\* + (50 unknown, 25 learning, 0 known) - 0.1 x review_count, daysOverdue being
\* the whole days elapsed since next_review; it reads no other word.
C11_PriorityFormula ==
    Selected =>
        \A k \in 1..Len(last.scored) :
            LET progress == last.scored[k][2].progress
                due_at == progress.next_review.v
            IN  (progress.review_count >= 1 /\ progress.next_review.kind = "str"
                    /\ due_at >= 0) =>
                \E d \in 0..last.at :
                    /\ last.at >= due_at =>
                          /\ d * TicksPerDay <= last.at - due_at
                          /\ last.at - due_at < (d + 1) * TicksPerDay
                    /\ last.scored[k][1] =
                          (IF last.at >= due_at THEN 10000 + 1000 * d ELSE 0)
                          + (300 - progress.easiness) * 5
                          + (IF progress.status = "unknown" THEN 5000
                             ELSE IF progress.status = "learning" THEN 2500
                             ELSE 0)
                          - 10 * progress.review_count

\* a reviewed word was scored some whole days and a part of a day after it fell due
C11_Witness ==
    /\ Selected
    /\ \E k \in 1..Len(last.scored) :
          LET progress == last.scored[k][2].progress
          IN  /\ progress.review_count >= 1 /\ progress.next_review.kind = "str"
              /\ last.at - progress.next_review.v > TicksPerDay
              /\ (last.at - progress.next_review.v) % TicksPerDay # 0

\* the place of a returned entry in the pool it was taken from
PlaceInPool(word_data) == CHOOSE k \in 1..Len(pool) : pool[k] = word_data

\* C12: the returned list is in order of non-increasing priority, and entries of
\* equal priority are in the order they have in the pool.
C12_StableDescending ==
    Selected =>
        \A j, k \in 1..Len(last.ret) :
            j < k =>
                LET pj == WithPriority(last.ret[j], last.at)[1]
                    pk == WithPriority(last.ret[k], last.at)[1]
                IN  /\ pj >= pk
                    /\ pj = pk => PlaceInPool(last.ret[j]) < PlaceInPool(last.ret[k])

\* two reviewed entries of equal priority were returned in their pool order
C12_Witness ==
    /\ Selected /\ Len(last.ret) >= 2
    /\ \E j, k \in 1..Len(last.ret) :
          /\ j < k
          /\ last.ret[j].progress.review_count >= 1
          /\ WithPriority(last.ret[j], last.at)[1] = WithPriority(last.ret[k], last.at)[1]
          /\ PlaceInPool(last.ret[j]) < PlaceInPool(last.ret[k])

\* C13: the call returns min(max_words, pool size) entries, each an entry of the
\* pool and none twice; max_words = 0 and the empty pool give the empty list.
C13_ResultSize ==
    Selected =>
        /\ Len(last.ret) = (IF last.max_words < Len(pool) THEN last.max_words
                            ELSE Len(pool))
        /\ \A k \in 1..Len(last.ret) : \E m \in 1..Len(pool) : pool[m] = last.ret[k]
        /\ \A j, k \in 1..Len(last.ret) : last.ret[j] = last.ret[k] => j = k
        /\ last.max_words = 0 => last.ret = <<>>
        /\ pool = <<>> => last.ret = <<>>

\* the cap cut the list short of the pool, and a word not yet due was returned
C13_Witness ==
    /\ Selected /\ last.max_words >= 1 /\ Len(pool) > last.max_words
    /\ Len(last.ret) = last.max_words
    /\ \E k \in 1..Len(last.ret) :
          /\ last.ret[k].progress.review_count >= 1
          /\ last.ret[k].progress.next_review.v > last.at

-----------------------------------------------------------------------------
(* Scenario D: a new word, an overdue word and a word not yet due *)

\* entries f, o and d of the list handed over are a word never reviewed, a
\* reviewed word overdue by 5 days and a reviewed word not yet due
ScenarioD(f, o, d) ==
    LET all_words == last.all_words
        due  == parse_timestamp(all_words[o].progress.next_review)
        next == parse_timestamp(all_words[d].progress.next_review)
    IN  /\ {f, o, d} = 1..3
        /\ all_words[f].progress.review_count = 0
        /\ all_words[o].progress.review_count >= 1
        /\ due.kind = "datetime" /\ due.v <= last.at
        /\ days_of(last.at - due.v) = 5
        /\ all_words[d].progress.review_count >= 1
        /\ next.kind = "datetime" /\ next.v > last.at

\* the last call asked for two words of a list of three
SelectedTwoOfThree ==
    Selected /\ last.max_words = 2 /\ Len(last.all_words) = 3

\* C14: of a new word, a word overdue by 5 days and a word not yet due, the call
\* for two words returns the new word and then the overdue word, whatever the
\* order of the list and whatever the states the two reviewed words have reached.
C14_ScenarioD ==
    SelectedTwoOfThree =>
        \A f, o, d \in 1..3 :
            ScenarioD(f, o, d) =>
                last.ret = <<last.all_words[f], last.all_words[o]>>

\* C14 as it holds: the same, for an overdue word reviewed at most 150 times.
C14_ScenarioDBounded ==
    SelectedTwoOfThree =>
        \A f, o, d \in 1..3 :
            /\ ScenarioD(f, o, d)
            /\ last.all_words[o].progress.review_count <= 150
            => last.ret = <<last.all_words[f], last.all_words[o]>>

\* the list was [not yet due, overdue, new], the overdue word had 100 to 150
\* reviews and the other one was a twice-failed word at easiness 1.3, and the
\* call returned [new, overdue]
C14_Witness ==
    /\ SelectedTwoOfThree /\ ScenarioD(3, 2, 1)
    /\ last.all_words[2].progress.review_count \in 100..150
    /\ last.all_words[1].progress.easiness = 130
    /\ last.all_words[1].progress.status = "unknown"
    /\ last.ret = <<last.all_words[3], last.all_words[2]>>

-----------------------------------------------------------------------------
(* What a call leaves of its argument *)

\* C15: update_word_progress leaves the record it was handed as it was; the new
\* state is only the value it returns.
C15_ArgumentUnmodified ==
    Updated => pool[last.i].progress = last.before

-----------------------------------------------------------------------------
(* When a reviewed word is due again *)

\* the instant at which the word of the last update is to be reviewed next
DueAt == last.at + timedelta_days(After.interval)

-----------------------------------------------------------------------------
(* Stored timestamps that cannot be read *)

\* C17: a stored next_review that is malformed or missing raises nothing; it is
\* read as null, and the word is scored as the same word with a null next_review
\* and as the same word falling due at this instant.
C17_MalformedRankedAsDue ==
    Selected =>
        /\ last.raised = "none"
        /\ \A k \in 1..Len(last.scored) :
              LET progress == last.scored[k][2].progress
                  score(next_review) ==
                      get_priority_score(next_review, progress.review_count,
                                         progress.easiness, progress.status, last.at)
              IN  progress.next_review \in {None, Malformed} =>
                      /\ parse_timestamp(progress.next_review) = None
                      /\ last.scored[k][1] = score(None)
                      /\ last.scored[k][1] = score(Datetime(last.at))

-----------------------------------------------------------------------------
(* Properties of the coordinator and the WordManager *)

\* the last call was the coordinator's mark_word_known or mark_word_unknown
Marked == last.op \in {"mark_word_known", "mark_word_unknown"}

\* C18: after reset_progress the manager holds the default memory-state for
\* every word of the vocabulary and for no other word, and the progress in
\* storage is that same state.
C18_ResetState ==
    last.op = "reset_progress" =>
        /\ DOMAIN word_manager._progress = WordsOf(word_manager._vocabulary)
        /\ \A w \in DOMAIN word_manager._progress :
              word_manager._progress[w] = DefaultProgress
        /\ DOMAIN storage.progress = DOMAIN word_manager._progress
        /\ \A w \in DOMAIN storage.progress :
              from_dict(storage.progress[w]) = DefaultProgress

\* progress was reset while the manager held a reviewed word of the vocabulary
\* and an entry for a word outside it, and both are gone
C18_Witness ==
    /\ last.op = "reset_progress" /\ last.raised = "none"
    /\ \E w \in DOMAIN last.held \cap WordsOf(word_manager._vocabulary) :
          last.held[w].review_count >= 1
    /\ \E w \in DOMAIN last.held : w \notin WordsOf(word_manager._vocabulary)
    /\ \A w \in WordsOf(word_manager._vocabulary) :
          word_manager._progress[w].review_count = 0

\* C19: whatever the coordinator does, short of reset_progress, the review_count
\* the manager holds for a word does not go down.
C19_ReviewCountKept ==
    [][ last'.op # "reset_progress" =>
            \A w \in DOMAIN word_manager._progress \cap DOMAIN word_manager'._progress :
                word_manager'._progress[w].review_count
                    >= word_manager._progress[w].review_count ]_vars

\* C20: mark_known and mark_unknown change no field by themselves; what a mark
\* call changes of the word's memory-state is what update_word_progress returns
\* for the state the word had.
C20_OnlyReviewsChangeState ==
    Marked =>
        /\ last.marked = last.before
        /\ \/ word_manager._progress[last.i] = last.before
           \/ word_manager._progress[last.i]
                  \in update_word_progress(last.before, last.quality, last.at)

-----------------------------------------------------------------------------
(* The service calls mark_known and mark_unknown *)

\* C22: mark_word_known and mark_word_unknown raise nothing, and when they
\* return storage holds for the word the state update_word_progress produced,
\* with review_count one higher and both timestamps set; every timestamp a
\* WordProgress holds is None or a datetime, so that to_dict never fails.
C22_MarkCompletes ==
    Marked =>
        /\ last.raised = "none"
        /\ last.i \in DOMAIN storage.progress
        /\ from_dict(storage.progress[last.i])
               \in update_word_progress(to_dict(last.marked), last.quality, last.at)
        /\ storage.progress[last.i].review_count = last.before.review_count + 1
        /\ \A w \in DOMAIN word_manager._progress :
              ~ to_dict_raises(word_manager._progress[w])

C25_OneReviewPerMark ==
    /\ Marked =>
          LET held == word_manager._progress[last.i]
          IN  /\ held.review_count = last.before.review_count + 1
              /\ last.op = "mark_word_known" =>
                    held.consecutive_correct = last.before.consecutive_correct + 1
              /\ last.op = "mark_word_unknown" =>
                    held.consecutive_incorrect = last.before.consecutive_incorrect + 1
    /\ \A w \in DOMAIN word_manager._progress :
          word_manager._progress[w].consecutive_correct
              + word_manager._progress[w].consecutive_incorrect
                  <= word_manager._progress[w].review_count

-----------------------------------------------------------------------------
(* The lifetime of a word's memory-state *)

\* C21: no operation other than reset_progress deletes a word's memory-state:
\* every word the manager holds a WordProgress for keeps one, whatever the
\* coordinator does next, a reset apart.
C21_EntriesKept ==
    [][ last'.op # "reset_progress" =>
            DOMAIN word_manager._progress \subseteq DOMAIN word_manager'._progress ]_vars

-----------------------------------------------------------------------------
(* The word presented next *)

\* C24: once a review of the presented word has been recorded while another
\* word of the vocabulary has never been reviewed, the next refresh presents a
\* different word (so that a learner who answers every presented word gets to
\* see every word of the vocabulary).
C24_NextPresentedDiffers ==
    [][ ( /\ Marked /\ last.i = current_word
          /\ \E w \in WordsOf(word_manager._vocabulary) \ {current_word} :
                Held(w).review_count = 0
          /\ last'.op = "refresh" )
        => current_word' # current_word ]_vars

-----------------------------------------------------------------------------
(* Calls that follow each other *)

\* C26: no review is lost when mark calls for the same word follow each other:
\* after two of them, with no other call in between, the review_count the
\* manager holds is the one from before the first call plus 2.
C26_NoReviewLost ==
    [][ (Marked /\ Marked' /\ last'.i = last.i)
        => word_manager'._progress[last.i].review_count
               = last.before.review_count + 2 ]_vars

-----------------------------------------------------------------------------
(* Status and the streak counters *)

\* C27: a word that started with the defaults and was updated with qualities
\* 0..5 only is known only with a review_count of at least 4; once reviewed it
\* is unknown exactly when consecutive_correct = 0, which is exactly when
\* consecutive_incorrect >= 1, and learning or known exactly when
\* consecutive_correct >= 1.
C27_StatusAndStreaks ==
    \A i \in 1..Len(pool) :
        LET p == pool[i].progress
        IN  /\ p.status = "known" => p.review_count >= 4
            /\ p.review_count >= 1 =>
                  /\ p.status = "unknown" <=> p.consecutive_correct = 0
                  /\ p.consecutive_correct = 0 <=> p.consecutive_incorrect >= 1
                  /\ p.status \in {"learning", "known"} <=> p.consecutive_correct >= 1

\* a word failed three times is known after its fourth review, the first one
\* answered well
C27_Witness ==
    /\ Updated /\ last.quality >= 4
    /\ last.before.status = "unknown" /\ last.before.consecutive_incorrect = 3
    /\ After.status = "known" /\ After.review_count = 4
    /\ After.consecutive_correct = 1 /\ After.consecutive_incorrect = 0

-----------------------------------------------------------------------------
(* The growth of the interval *)

\* the last call was a successful review
Succeeded == Updated /\ last.quality >= 3

\* C28: under an unbroken run of successful reviews the interval never
\* decreases from one review to the next, and it does not stay at the same value
\* below the cap of 365 days for ever: no successful review leaves an interval
\* below the cap, and the easiness with it, as they were (the same answer given
\* again and again would keep the interval there and the cap would never be
\* reached).
C28_IntervalReachesCap ==
    Succeeded =>
        /\ After.interval >= last.before.interval
        /\ (last.before.review_count >= 2 /\ last.before.interval < MAX_INTERVAL)
               => <<After.easiness, After.interval>>
                      # <<last.before.easiness, last.before.interval>>

\* C28, as the code has it: a successful review never decreases the interval;
\* at interval 1 and an easiness below 2.0 a review of quality 3 or 4 leaves the
\* interval at 1 and the easiness no higher, so the interval can stay at 1 for
\* ever; it reaches the cap if, after the first reviews, every review has
\* quality 5.
C28_PerfectRunReachesCap ==
    /\ [](Succeeded => After.interval >= last.before.interval)
    /\ []( ( /\ Succeeded /\ last.quality <= 4 /\ last.before.review_count >= 2
             /\ last.before.easiness < 2 * Scale
             /\ last.before.interval = MIN_INTERVAL )
           => After.easiness <= last.before.easiness /\ After.interval = MIN_INTERVAL )
    /\ ( [](Updated /\ last.before.review_count >= FirstReviews => last.quality = 5)
         => <>(pool[1].progress.interval = MAX_INTERVAL) )

\* a word failed twice, at easiness 1.3 and interval 1, has reached the cap by
\* answers of quality 5 alone
C28_Witness ==
    /\ Succeeded /\ last.quality = 5
    /\ last.before.interval < MAX_INTERVAL /\ After.interval = MAX_INTERVAL
    /\ After.consecutive_correct = After.review_count - 2
    /\ After.easiness = MIN_EASINESS + 10 * After.consecutive_correct

-----------------------------------------------------------------------------
(* Statistics *)

\* C29: in the counts WordManager.get_statistics returns, and in those a
\* refresh has written to storage, known + learning + unknown = total_words, so
\* that known <= total_words and the progress percentage lies within 0..100.
C29_StatisticsAddUp ==
    LET stats == get_statistics(word_manager)
        adds_up(s) ==
            /\ s.known_words + s.learning_words + s.unknown_words = s.total_words
            /\ s.known_words <= s.total_words
    IN  /\ last.op # "none" => adds_up(stats)
        /\ (last.op = "refresh" /\ last.raised = "none") =>
              storage.statistics = stats /\ adds_up(storage.statistics)

-----------------------------------------------------------------------------
(* Quiet hours *)

\* the last step was a tick of the notification loop
Ticked == last.op = "schedule_next"

\* the time of the last call lies inside the configured quiet window
InQuietWindow ==
    LET start == notifier.quiet_hours_start.minute
        end == notifier.quiet_hours_end.minute
    IN  IF start <= end
        THEN start <= time(last.at) /\ time(last.at) <= end
        ELSE time(last.at) >= start \/ time(last.at) <= end

\* both configured times are written as "HH:MM"
WellFormed ==
    /\ ~ strptime_raises(notifier.quiet_hours_start)
    /\ ~ strptime_raises(notifier.quiet_hours_end)

\* C30: a notification tick inside the configured quiet window issues no notify
\* service call, and every tick schedules the next one the configured frequency
\* later.
C30_QuietInsideWindow ==
    Ticked =>
        /\ InQuietWindow => last.calls = 0
        /\ notifier.due = last.at + notifier.notification_frequency

\* C30, as the code has it: with both times written as "HH:MM" a tick inside the
\* quiet window issues no notify call; when one of them does not parse, no time
\* is quiet; outside quiet hours a tick issues one call if there is a current
\* word; every tick schedules the next one the configured frequency later.
C30_QuietWhenWellFormed ==
    Ticked =>
        /\ last.calls = IF (WellFormed /\ InQuietWindow) \/ current_word = 0
                        THEN 0 ELSE 1
        /\ notifier.due = last.at + notifier.notification_frequency

\* a tick at 08:00 sharp, the last quiet minute of a window from 22:00 to 08:00,
\* has issued no call although there is a word to present
C30_Witness ==
    /\ Ticked /\ WellFormed /\ current_word # 0
    /\ notifier.quiet_hours_start.minute = 22 * 60
    /\ notifier.quiet_hours_end.minute = 8 * 60
    /\ time(last.at) = 8 * 60
    /\ last.calls = 0
    /\ notifier.due > last.at

=============================================================================
